---------------------------- MODULE Spec2Model ----------------------------
(***************************************************************************)
(* Model of METAL_ITEM_DETECTOR.py: the simulated sensor, the detector     *)
(* with its mutable threshold, the CSV detection log and the menu loop.    *)
(*                                                                         *)
(* Text is a sequence of one-character strings.  The log file is a record  *)
(* [exists, lines]; a line is the text csv.writer emits for one row (the   *)
(* fields joined by ","; no field of this program contains a comma, a      *)
(* quote or a line break, so csv never quotes).                            *)
(***************************************************************************)
EXTENDS Integers, Sequences, FiniteSets, TLC

\* ------------------------------------------------------------------ bounds
MaxLines == 3       \* lines the log may hold in Spec (header included)
MaxCallLines == 4   \* lines the log may hold in SpecCalls
MaxLimit == 3       \* largest limit passed to view_logs in SpecCalls

\* ------------------------------------------------------- program constants
BaseMin == 50
BaseMax == 300
SpikeMin == 300
SpikeMax == 700
ReadingMax == 1023
ThresholdMin == 0
ThresholdMax == 1023
DefaultThreshold == 500
DefaultLimit == 10

\* -------------------------------------------------------------------- text
Digits == <<"0", "1", "2", "3", "4", "5", "6", "7", "8", "9">>

DigitChar(d) == Digits[d + 1]

IsDigit(c) == \E d \in 0..9 : Digits[d + 1] = c

DigitVal(c) == CHOOSE d \in 0..9 : Digits[d + 1] = c

\* str(n) of a non-negative int, as csv.writer and the f-strings produce it
RECURSIVE Str(_)
Str(n) == IF n < 10 THEN <<DigitChar(n)>>
          ELSE Str(n \div 10) \o <<DigitChar(n % 10)>>

Pad2(n) == <<DigitChar((n \div 10) % 10), DigitChar(n % 10)>>

\* strftime("%Y-%m-%d %H:%M:%S") of a wall clock given as seconds past the
\* midnight of the day the program runs on; the day itself is one fixed date.
\* ClockSamples are the readings of datetime.now() explored.
DateText == <<"2", "0", "2", "6", "-", "0", "1", "-", "0", "1">>

ClockSamples == {0, 86399}

strftime(t) == DateText \o <<" ">> \o Pad2(t \div 3600) \o <<":">>
               \o Pad2((t \div 60) % 60) \o <<":">> \o Pad2(t % 60)

\* ------------------------------------------------------------------ sensor
Min(a, b) == IF a < b THEN a ELSE b
Max(a, b) == IF a > b THEN a ELSE b

\* SensorSimulator.read_value for one outcome of its three random draws:
\* base = randint(50, 300), spike_hit = (random() < 0.2), spike = randint(300, 700)
read_value_sub(base, spike_hit, spike) ==
    Min(IF spike_hit THEN base - spike ELSE base, ReadingMax)

read_value(base, spike_hit, spike) ==
    Min(IF spike_hit THEN base + spike ELSE base, ReadingMax)

\* the draws explored by the whole-program specification
BaseSamples == {BaseMax}
SpikeSamples == {SpikeMax}

ReadingSamples == {read_value(base, spike_hit, spike) :
                     base \in BaseSamples, spike_hit \in BOOLEAN, spike \in SpikeSamples}

\* ---------------------------------------------------------------- detector
is_metal_detected_le(value, th) == value <= th

is_metal_detected_gt(value, th) == value > th

is_metal_detected(value, th) == value >= th

\* ----------------------------------------------------------------- parsing
RECURSIVE LStrip(_)
LStrip(s) == IF s # <<>> /\ Head(s) = " " THEN LStrip(Tail(s)) ELSE s

RECURSIVE RStrip(_)
RStrip(s) == IF s # <<>> /\ s[Len(s)] = " "
             THEN RStrip(SubSeq(s, 1, Len(s) - 1)) ELSE s

\* value of a run of digits and single underscores, most significant first
RECURSIVE DigitsValue(_, _)
DigitsValue(s, acc) ==
    IF s = <<>> THEN acc
    ELSE IF Head(s) = "_" THEN DigitsValue(Tail(s), acc)
    ELSE DigitsValue(Tail(s), 10 * acc + DigitVal(Head(s)))

\* int(text): surrounding blanks stripped, an optional sign, then digits with
\* single underscores between them; anything else raises ValueError
int(text) ==
    LET s == RStrip(LStrip(text))
        signed == s # <<>> /\ Head(s) \in {"+", "-"}
        body == IF signed THEN Tail(s) ELSE s
        wellFormed ==
            /\ body # <<>>
            /\ IsDigit(body[1]) /\ IsDigit(body[Len(body)])
            /\ \A i \in 1..Len(body) : IsDigit(body[i]) \/ body[i] = "_"
            /\ \A i \in 1..(Len(body) - 1) : ~(body[i] = "_" /\ body[i + 1] = "_")
        magnitude == DigitsValue(body, 0)
    IN IF wellFormed
       THEN [ok |-> TRUE,
             val |-> IF signed /\ Head(s) = "-" THEN 0 - magnitude ELSE magnitude]
       ELSE [ok |-> FALSE, val |-> 0]

\* --------------------------------------------------------------------- csv
HeaderFields == << <<"T", "i", "m", "e", "s", "t", "a", "m", "p">>,
                   <<"S", "e", "n", "s", "o", "r", " ", "V", "a", "l", "u", "e">> >>

\* csv.writer.writerow: the fields joined by the delimiter
RECURSIVE CsvLine(_)
CsvLine(fields) ==
    IF Len(fields) = 0 THEN <<>>
    ELSE IF Len(fields) = 1 THEN fields[1]
    ELSE fields[1] \o <<",">> \o CsvLine(Tail(fields))

\* csv.reader on one line: the line split at every delimiter
RECURSIVE CsvSplit(_, _)
CsvSplit(line, field) ==
    IF line = <<>> THEN <<field>>
    ELSE IF Head(line) = "," THEN <<field>> \o CsvSplit(Tail(line), <<>>)
    ELSE CsvSplit(Tail(line), Append(field, Head(line)))

CsvRow(line) == IF line = <<>> THEN <<>> ELSE CsvSplit(line, <<>>)

HeaderLine == CsvLine(HeaderFields)

RecordLine(timestamp, value) == CsvLine(<<timestamp, Str(value)>>)


\* ---------------------------------------------------------------- log file
NoFile == [exists |-> FALSE, lines |-> <<>>]

\* open(LOG_FILE, "r") succeeds iff the file exists
FileExists(f) == f.exists

\* open(LOG_FILE, mode="a"): creates the file when absent, keeps its content
OpenAppend_truncate(f) == [exists |-> TRUE, lines |-> <<>>]

OpenAppend(f) == [exists |-> TRUE, lines |-> f.lines]

\* closing the handle writes the buffered rows behind the existing content
Flush(f, rows) == [f EXCEPT !.lines = @ \o rows]

\* the rows one uninterrupted log_detection writes
RowsWritten(file_exists, timestamp, value) ==
    (IF ~file_exists THEN <<HeaderLine>> ELSE <<>>) \o <<RecordLine(timestamp, value)>>

\* MetalDetector.log_detection run from entry to return
log_detection(f, clock, value) ==
    LET timestamp == strftime(clock)
        file_exists == FileExists(f)
    IN Flush(OpenAppend(f), RowsWritten(file_exists, timestamp, value))

\* rows[-limit:], Python slice semantics
SliceLast(rows, limit) ==
    LET n == Len(rows)
        s == 0 - limit
        start == IF s < 0 THEN Max(n + s, 0) ELSE Min(s, n)
    IN SubSeq(rows, start + 1, n)

NoOut == [op |-> "none", input |-> <<>>, limit |-> 0, msg |-> "none",
          shown |-> <<>>, error |-> "none"]

\* view_logs(limit) once the file is open: what it prints (msg, shown) and
\* what it raises (error)
view_logs_opened(f, limit) ==
    LET reader == [i \in 1..Len(f.lines) |-> CsvRow(f.lines[i])]
    IN IF Len(reader) <= 1
       THEN [NoOut EXCEPT !.op = "view", !.limit = limit,
                          !.msg = "No detections logged yet."]
       ELSE LET rows == Tail(reader)
                window == SliceLast(rows, limit)
                bad == {i \in 1..Len(window) : Len(window[i]) < 2}
                stop == IF bad = {} THEN Len(window) + 1
                        ELSE CHOOSE i \in bad : \A j \in bad : i <= j
            IN [NoOut EXCEPT
                  !.op = "view", !.limit = limit,
                  !.shown = [i \in 1..(stop - 1) |-> <<window[i][1], window[i][2]>>],
                  !.error = IF bad = {} THEN "none" ELSE "IndexError"]

view_logs_raise(f, limit) ==
    IF ~FileExists(f)
    THEN [NoOut EXCEPT !.op = "view", !.limit = limit, !.error = "FileNotFoundError"]
    ELSE view_logs_opened(f, limit)

\* view_logs(limit)
view_logs(f, limit) ==
    IF ~FileExists(f)
    THEN [NoOut EXCEPT !.op = "view", !.limit = limit,
                       !.msg = "No log file found. No detections recorded yet."]
    ELSE view_logs_opened(f, limit)

\* change_threshold: the new threshold and the message printed for one input
InRange_upper(n) == ThresholdMin <= n /\ n <= ThresholdMax + 1

InRange_nolower(n) == n <= ThresholdMax

InRange(n) == ThresholdMin <= n /\ n <= ThresholdMax

change_threshold(th, text) ==
    LET parsed == int(text)
    IN IF ~parsed.ok
       THEN [threshold |-> th, msg |-> "Invalid input. Threshold not changed."]
       ELSE IF InRange(parsed.val)
            THEN [threshold |-> parsed.val, msg |-> "Threshold updated"]
            ELSE [threshold |-> th, msg |-> "Invalid value. Threshold not changed."]

\* what the user may type at the threshold prompt
ThresholdInputs ==
    { <<"1", "0", "0", "0">>, <<" ", "1", "0", "2", "3">>, <<"1", "0", "2", "4">>,
      <<"-", "1">>, <<"a", "b", "c">>, <<>>, <<"0">> }

\* ------------------------------------------------------------------- state
VARIABLES
    pc,           \* where main / start_monitoring / log_detection stands
    threshold,    \* detector.threshold
    file,         \* detections_log.csv
    value,        \* start_monitoring: value
    metal,        \* start_monitoring: metal
    timestamp,    \* log_detection: timestamp
    file_exists,  \* log_detection: file_exists
    buf,          \* rows written to the open handle and not yet on disk
    out,          \* what the last menu operation printed or raised
    prov,         \* history: per record on disk, its reading and the threshold that reading met
    thAtRead,     \* history: threshold when the reading in hand was taken (0: none in hand)
    cycleFile     \* history: the file when the cycle in progress started

vars == <<pc, threshold, file, value, metal, timestamp, file_exists, buf,
          out, prov, thAtRead, cycleFile>>

locals == <<value, metal, timestamp, file_exists, buf>>
hist == <<prov, thAtRead, cycleFile>>

LoopPcs == {"read", "classify", "log_ts", "log_check", "log_open", "log_header",
            "log_row", "log_close", "sleep"}
OpenPcs == {"log_header", "log_row", "log_close"}

Init ==
    /\ pc = "menu"
    /\ threshold = DefaultThreshold
    /\ file = NoFile
    /\ value = 0
    /\ metal = FALSE
    /\ timestamp = <<>>
    /\ file_exists = FALSE
    /\ buf = <<>>
    /\ out = NoOut
    /\ prov = <<>>
    /\ thAtRead = 0
    /\ cycleFile = NoFile


\* ------------------------------------------------------------------- main
\* choice "1": detector.start_monitoring() is entered
MenuStart ==
    /\ pc = "menu"
    /\ pc' = "banner"
    /\ out' = NoOut
    /\ UNCHANGED <<threshold, file, locals, hist>>

\* choice "2": change_threshold(detector)
MenuChangeThreshold ==
    /\ pc = "menu"
    /\ \E text \in ThresholdInputs :
          LET r == change_threshold(threshold, text)
          IN /\ threshold' = r.threshold
             /\ out' = [NoOut EXCEPT !.op = "threshold", !.input = text, !.msg = r.msg]
    /\ UNCHANGED <<pc, file, locals, hist>>

\* choice "3": view_logs() with the default limit
MenuViewLogs ==
    /\ pc = "menu"
    /\ out' = view_logs(file, DefaultLimit)
    /\ UNCHANGED <<pc, threshold, file, locals, hist>>

\* choice "4": the menu loop breaks
MenuExit ==
    /\ pc = "menu"
    /\ pc' = "exit"
    /\ out' = NoOut
    /\ UNCHANGED <<threshold, file, locals, hist>>

\* any other choice
MenuInvalid ==
    /\ pc = "menu"
    /\ out' = [NoOut EXCEPT !.op = "choice", !.msg = "Invalid choice. Please try again."]
    /\ UNCHANGED <<pc, threshold, file, locals, hist>>

\* ------------------------------------------------------- start_monitoring
\* the two prints before the try block
Banner ==
    /\ pc = "banner"
    /\ pc' = "read"
    /\ UNCHANGED <<threshold, file, locals, out, hist>>

\* value = self.sensor.read_value()
Read ==
    /\ pc = "read"
    /\ \E base \in BaseSamples, spike_hit \in BOOLEAN, spike \in SpikeSamples :
          LET v == read_value(base, spike_hit, spike)
          IN /\ is_metal_detected(v, threshold) => Len(file.lines) < MaxLines
             /\ value' = v
    /\ thAtRead' = threshold
    /\ cycleFile' = file
    /\ pc' = "classify"
    /\ UNCHANGED <<threshold, file, metal, timestamp, file_exists, buf, out, prov>>

\* metal = self.is_metal_detected(value); the status line; if metal: log
Classify ==
    /\ pc = "classify"
    /\ metal' = is_metal_detected(value, threshold)
    /\ pc' = IF metal' THEN "log_ts" ELSE "sleep"
    /\ UNCHANGED <<threshold, file, value, timestamp, file_exists, buf, out, hist>>

\* log_detection: timestamp = datetime.now().strftime(...)
LogTimestamp ==
    /\ pc = "log_ts"
    /\ \E clock \in ClockSamples : timestamp' = strftime(clock)
    /\ pc' = "log_check"
    /\ UNCHANGED <<threshold, file, value, metal, file_exists, buf, out, hist>>

\* log_detection: the try/except probing the file with open(LOG_FILE, "r")
LogCheck ==
    /\ pc = "log_check"
    /\ file_exists' = FileExists(file)
    /\ pc' = "log_open"
    /\ UNCHANGED <<threshold, file, value, metal, timestamp, buf, out, hist>>

\* log_detection: with open(LOG_FILE, mode="a", newline="") as file
LogOpen ==
    /\ pc = "log_open"
    /\ file' = OpenAppend(file)
    /\ buf' = <<>>
    /\ pc' = "log_header"
    /\ UNCHANGED <<threshold, value, metal, timestamp, file_exists, out, hist>>

\* log_detection: if not file_exists: writer.writerow(header)
LogHeader ==
    /\ pc = "log_header"
    /\ buf' = IF ~file_exists THEN Append(buf, HeaderLine) ELSE buf
    /\ pc' = "log_row"
    /\ UNCHANGED <<threshold, file, value, metal, timestamp, file_exists, out, hist>>

\* log_detection: writer.writerow([timestamp, value])
LogRow ==
    /\ pc = "log_row"
    /\ buf' = Append(buf, RecordLine(timestamp, value))
    /\ pc' = "log_close"
    /\ UNCHANGED <<threshold, file, value, metal, timestamp, file_exists, out, hist>>

\* the record the open handle holds once writerow([timestamp, value]) has run
Pending == IF pc = "log_close"
           THEN <<[timestamp |-> timestamp, value |-> value, th |-> thAtRead]>>
           ELSE <<>>

\* log_detection: the with block ends, the handle is closed, the call returns
LogClose ==
    /\ pc = "log_close"
    /\ file' = Flush(file, buf)
    /\ prov' = prov \o Pending
    /\ buf' = <<>>
    /\ timestamp' = <<>>
    /\ file_exists' = FALSE
    /\ pc' = "sleep"
    /\ UNCHANGED <<threshold, value, metal, out, thAtRead, cycleFile>>

\* time.sleep(self.delay), then the next iteration
Sleep ==
    /\ pc = "sleep"
    /\ pc' = "read"
    /\ UNCHANGED <<threshold, file, locals, out, hist>>

\* KeyboardInterrupt raised inside the try block: at whatever statement the
\* loop stands; an open handle is closed by its with block on the way out
KeyboardInterruptInLoop ==
    /\ pc \in LoopPcs
    /\ file' = IF pc \in OpenPcs THEN Flush(file, buf) ELSE file
    /\ prov' = prov \o Pending
    /\ buf' = <<>>
    /\ timestamp' = <<>>
    /\ file_exists' = FALSE
    /\ pc' = "stopped"
    /\ UNCHANGED <<threshold, value, metal, out, thAtRead, cycleFile>>

\* except KeyboardInterrupt: the message is printed, start_monitoring returns
Stopped ==
    /\ pc = "stopped"
    /\ pc' = "menu"
    /\ value' = 0
    /\ metal' = FALSE
    /\ thAtRead' = 0
    /\ cycleFile' = NoFile
    /\ UNCHANGED <<threshold, file, timestamp, file_exists, buf, out, prov>>

\* KeyboardInterrupt raised outside the try block (at the menu prompt, in the
\* banner prints, in the except handler): nothing catches it, the process
\* ends with its console output and its locals gone
KeyboardInterruptOutside ==
    /\ pc \in {"menu", "banner", "stopped"}
    /\ pc' = "killed"
    /\ out' = NoOut
    /\ value' = 0
    /\ metal' = FALSE
    /\ UNCHANGED <<threshold, file, timestamp, file_exists, buf, hist>>

Next ==
    \/ MenuStart
    \/ MenuChangeThreshold
    \/ MenuViewLogs
    \/ MenuExit
    \/ MenuInvalid
    \/ Banner
    \/ Read
    \/ Classify
    \/ LogTimestamp
    \/ LogCheck
    \/ LogOpen
    \/ LogHeader
    \/ LogRow
    \/ LogClose
    \/ Sleep
    \/ KeyboardInterruptInLoop
    \/ Stopped
    \/ KeyboardInterruptOutside

Spec == Init /\ [][Next]_vars


\* ------------------------------------------- the functions called directly
\* log_detection(value) called and run to its return.  The call takes no
\* reading; the history notes the threshold as it stands.
CallLogDetection ==
    /\ pc = "menu"
    /\ Len(file.lines) < MaxCallLines
    /\ \E v \in ReadingSamples, clock \in ClockSamples :
          /\ file' = log_detection(file, clock, v)
          /\ prov' = Append(prov, [timestamp |-> strftime(clock), value |-> v,
                                   th |-> threshold])
    /\ out' = NoOut
    /\ UNCHANGED <<pc, threshold, locals, thAtRead, cycleFile>>

\* view_logs(limit) called with any limit >= 0
CallViewLogs ==
    /\ pc = "menu"
    /\ \E limit \in 0..MaxLimit : out' = view_logs(file, limit)
    /\ UNCHANGED <<pc, threshold, file, locals, hist>>

NextCalls == CallLogDetection \/ CallViewLogs

SpecCalls == Init /\ [][NextCalls]_vars

\* SensorSimulator.read_value() called once, over every outcome of its draws
InitSensor ==
    /\ pc = "sensor"
    /\ threshold = DefaultThreshold
    /\ file = NoFile
    /\ value = 0
    /\ metal = FALSE
    /\ timestamp = <<>>
    /\ file_exists = FALSE
    /\ buf = <<>>
    /\ out = NoOut
    /\ prov = <<>>
    /\ thAtRead = 0
    /\ cycleFile = NoFile

SensorRead ==
    /\ pc = "sensor"
    /\ \E base \in BaseMin..BaseMax, spike_hit \in BOOLEAN, spike \in SpikeMin..SpikeMax :
          value' = read_value(base, spike_hit, spike)
    /\ pc' = "sensor_done"
    /\ UNCHANGED <<threshold, file, metal, timestamp, file_exists, buf, out, hist>>

NextSensor == SensorRead

SpecSensor == InitSensor /\ [][NextSensor]_vars

\* ============================================================= properties
IsPrefix(a, b) == Len(a) <= Len(b) /\ SubSeq(b, 1, Len(a)) = a

IsRecordLine(line) == line # HeaderLine

\* the record rows of the file, in file order
RecordsOf(f) == SelectSeq(f.lines, IsRecordLine)

\* the rows the history says are on disk
ProvLines == [i \in 1..Len(prov) |-> RecordLine(prov[i].timestamp, prov[i].value)]

\* C1: every record persisted in the log was written for a reading that was
\* >= the threshold in force when that reading was taken (the threshold may
\* have been raised since).
C1_RecordsMetThreshold ==
    /\ RecordsOf(file) = ProvLines
    /\ \A i \in 1..Len(prov) : prov[i].value >= prov[i].th

\* C1 witness: back at the menu, the log holds a record whose reading is below
\* the threshold now in force.
C1_Witness ==
    /\ pc = "menu"
    /\ \E i \in 1..Len(prov) :
          /\ prov[i].value < threshold
          /\ RecordLine(prov[i].timestamp, prov[i].value) = file.lines[i + 1]

\* C2 (as claimed): view_logs(limit), for every limit >= 0 and a log of n
\* appended records, shows exactly the last min(limit, n) of them, oldest
\* first, each with the value that was appended.
C2_RecentReturnsLastMin ==
    out.op = "view" =>
        LET n == Len(prov)
            k == Min(out.limit, n)
        IN /\ out.error = "none"
           /\ out.shown = [i \in 1..k |-> <<prov[n - k + i].timestamp,
                                           Str(prov[n - k + i].value)>>]

\* C3: change_threshold with a non-numeric input or an integer outside
\* [0, 1023] leaves the threshold as it was and prints an invalid-input
\* message; with an integer in [0, 1023] it sets the threshold to it.
C3_SetThreshold ==
    [][(pc = "menu" /\ out'.op = "threshold") =>
          LET parsed == int(out'.input)
          IN IF parsed.ok /\ 0 <= parsed.val /\ parsed.val <= 1023
             THEN threshold' = parsed.val /\ out'.msg = "Threshold updated"
             ELSE /\ threshold' = threshold
                  /\ out'.msg \in {"Invalid input. Threshold not changed.",
                                  "Invalid value. Threshold not changed."}]_vars

\* C3 witness: an out-of-range input was just rejected and the threshold is
\* still the one an earlier, accepted input had set.
C3_Witness ==
    /\ out.op = "threshold"
    /\ out.msg = "Invalid value. Threshold not changed."
    /\ threshold = 1000

\* C4 (as claimed): a log that holds rows holds the header row exactly once,
\* as its first row.
C4_HeaderOnceFirst ==
    (file.exists /\ Len(file.lines) >= 1) =>
        /\ file.lines[1] = HeaderLine
        /\ Cardinality({i \in 1..Len(file.lines) : file.lines[i] = HeaderLine}) = 1

\* C5: the log is append-only: no step of the program removes the file or
\* changes or reorders a row already in it, and a log_detection that returns
\* has added exactly one record row, as the last row.
C5_AppendOnly ==
    [][/\ file.exists => file'.exists
       /\ IsPrefix(file.lines, file'.lines)
       /\ (pc = "log_close" /\ pc' = "sleep") =>
             /\ file'.lines[Len(file'.lines)] = RecordLine(timestamp, value)
             /\ RecordsOf(file') = Append(RecordsOf(file), RecordLine(timestamp, value))]_vars

\* C5 witness: a log_detection has returned having appended behind an
\* earlier record.
C5_Witness ==
    /\ pc = "sleep"
    /\ metal
    /\ Len(RecordsOf(file)) >= 2
    /\ Len(RecordsOf(cycleFile)) >= 1

\* C6: view_logs on a log without records and on a log file that does not
\* exist shows no record and raises nothing in both cases, and leaves the
\* file as it is.
C6_EmptyViewsAlike ==
    [][(pc = "menu" /\ out'.op = "view") =>
          /\ file' = file
          /\ (~file.exists \/ RecordsOf(file) = <<>>) =>
                (out'.shown = <<>> /\ out'.error = "none")]_vars

\* C6 witness: the log was viewed while the file existed and held no record.
C6_Witness ==
    /\ out.op = "view"
    /\ file.exists
    /\ RecordsOf(file) = <<>>
    /\ out.shown = <<>>

\* C7: in a monitoring cycle the reading is classified as detected iff it is
\* >= the threshold, and the cycle that reaches its sleep has appended exactly
\* one record carrying the reading when detected and left the log as it was
\* when not.
C7_CycleLogsIffDetected ==
    [][/\ (pc = "classify" /\ pc' \in {"log_ts", "sleep"}) =>
             /\ metal' = (value >= threshold)
             /\ (pc' = "log_ts") = (value >= threshold)
       /\ (pc' = "sleep" /\ pc # "sleep") =>
             IF value >= threshold
             THEN \E clock \in ClockSamples :
                     /\ RecordsOf(file') =
                           Append(RecordsOf(cycleFile), RecordLine(strftime(clock), value))
                     /\ CsvRow(file'.lines[Len(file'.lines)])[2] = Str(value)
             ELSE file' = cycleFile]_vars

\* C7 witness: a cycle whose reading equals the threshold has logged it.
C7_Witness ==
    /\ pc = "sleep"
    /\ value = threshold
    /\ metal
    /\ file # cycleFile

\* C8 (as claimed): an interrupt during monitoring is observed only at the
\* sleep between cycles (the loop head, where no cycle has started, counted
\* with it), so that a cycle that has started is never abandoned, and it
\* returns control to the menu instead of ending the program.
C8_InterruptOnlyAtSleep ==
    [][/\ (pc' = "stopped" /\ pc # "stopped") => pc \in {"sleep", "read"}
       /\ pc \in LoopPcs => pc' # "killed"]_vars

\* C9: read_value returns an integer in [0, 1023] for every outcome of its
\* draws.
C9_ReadingInRange ==
    pc = "sensor_done" => value \in 0..1023

\* C9 witness: the largest base met the largest spike.
C9_Witness ==
    pc = "sensor_done" /\ value = 1000

\* C10: the threshold is an integer in [0, 1023] in every reachable state.
C10_ThresholdInRange ==
    threshold \in 0..1023

\* C10 witness: monitoring runs under a threshold the user has set to the
\* upper end of the range.
C10_Witness ==
    pc = "sleep" /\ threshold = 1023

=============================================================================
